---------------------------- MODULE Spec2Model ----------------------------
(***************************************************************************)
(* Sidecar Process Supervisor of the Sage desktop shell                    *)
(* (src/app/desktop/tauri/src/main.rs).                                    *)
(*                                                                         *)
(* Three execution contexts are modelled:                                  *)
(*   - the background task started in setup (main.rs 120-211): spawn the   *)
(*     backend, publish its pid into SidecarPid, drain stdout line by line *)
(*     raising "sage-desktop-ready" events, wait for the child;            *)
(*   - the on_window_event handler for WindowEvent::Destroyed (main.rs     *)
(*     47-71): lock SidecarPid, kill the stored pid, clear it, exit(0);    *)
(*   - the backend child itself and the OS (printing lines, closing        *)
(*     stdout, exiting), which are the environment.                        *)
(*                                                                         *)
(* Text is modelled as sequences of one-character strings; Option<T> as a  *)
(* sequence of length 0 (None) or 1 (Some).                                *)
(***************************************************************************)
EXTENDS Integers, Sequences, FiniteSets, TLC

VARIABLES
    taskPc,       \* position of the background task
    childState,   \* OS state of the backend: "none", "running", "exited", "reaped"
    childPid,     \* Option: pid the OS gave the child
    stdoutOpen,   \* the child still holds the write end of its stdout pipe
    printed,      \* ids (into SampleLines) of the lines the child has written
    linesRead,    \* ids of the lines next_line() has returned, in order
    loopEnd,      \* why the read loop ended: "none", "eof", "error" ("break": never)
    events,       \* sage-desktop-ready events emitted, in order
    sidecarPid,   \* SidecarPid: Mutex<Option<u32>> contents
    lock,         \* holder of the SidecarPid mutex: "free" or "guard"
    guardPc,      \* position of the Destroyed handler
    guardLocal,   \* the handler's view taken with the lock: [found, pub, kills0]
    published,    \* ghost: the task has stored Some(id) into SidecarPid
    destroyed,    \* number of Destroyed events delivered so far
    kills,        \* termination requests issued: <<[pid (the Option read), ok]>>
    exits,        \* exit requests made, with the handler's view at that moment
    appState,     \* "running", "exiting" (exit requested), "exited", "aborted"
    envSagePort,  \* Option: value of the SAGE_PORT environment variable
    setupPort,    \* the port setup bound, captured by the background task
    exitStatus,   \* Option: what child.wait() returned (it is only printed)
    probe         \* a single line handed to the detector (detector specification)

vars == <<taskPc, childState, childPid, stdoutOpen, printed, linesRead, loopEnd,
          events, sidecarPid, lock, guardPc, guardLocal, published, destroyed, kills, exits,
          appState, envSagePort, setupPort,
                   exitStatus, probe>>

-----------------------------------------------------------------------------
(* Bounds *)

MaxLines == 2

MaxDestroyed == 2

MaxTok == 5

-----------------------------------------------------------------------------
(* Option *)

None == << >>

Some(x) == <<x>>

IsSome(o) == Len(o) = 1

Unwrap(o) == o[1]

-----------------------------------------------------------------------------
(* Text helpers: str::contains, split_whitespace, trim_matches, parse::<u16> *)

U16Max == 65535

Marker == <<"S","t","a","r","t","i","n","g"," ","S","a","g","e"," ",
            "D","e","s","k","t","o","p"," ","S","e","r","v","e","r"," ",
            "o","n"," ","p","o","r","t">>

Whitespace == {" ", "\t"}

Digits == <<"0","1","2","3","4","5","6","7","8","9">>

IsDigit(c) == \E d \in 1..10 : Digits[d] = c

DigitVal(c) == (CHOOSE d \in 1..10 : Digits[d] = c) - 1

\* line.contains(pat)
Contains(line, pat) ==
    \E i \in 1..(Len(line) - Len(pat) + 1) :
        SubSeq(line, i, i + Len(pat) - 1) = pat

\* line.split_whitespace().rev().next(): the last maximal run of
\* non-whitespace characters, None when the line holds none.
LastWord(line) ==
    LET nonWs == {i \in 1..Len(line) : line[i] \notin Whitespace}
    IN  IF nonWs = {} THEN None
        ELSE LET last  == CHOOSE i \in nonWs : \A j \in nonWs : j <= i
                 first == CHOOSE i \in 1..last :
                              /\ \A j \in i..last : j \in nonWs
                              /\ (i = 1 \/ (i - 1) \notin nonWs)
             IN  Some(SubSeq(line, first, last))

\* Mutant: trim_end_matches('.'), stripping the trailing periods only.
TrimMatchesDot_TrailingOnly(word) ==
    LET keep == {i \in 1..Len(word) : word[i] # "."}
    IN  IF keep = {} THEN << >>
        ELSE SubSeq(word, 1, CHOOSE i \in keep : \A j \in keep : j <= i)

\* word.trim_matches('.'): strips the character at BOTH ends.
TrimMatchesDot(word) ==
    LET keep == {i \in 1..Len(word) : word[i] # "."}
    IN  IF keep = {} THEN << >>
        ELSE LET lo == CHOOSE i \in keep : \A j \in keep : i <= j
                 hi == CHOOSE i \in keep : \A j \in keep : j <= i
             IN  SubSeq(word, lo, hi)

\* The digit loop of u16::from_str: checked multiply-and-add, Err on a
\* non-digit or on overflow past u16::MAX.
RECURSIVE ParseDigits(_, _)
ParseDigits(s, acc) ==
    IF s = << >> THEN Some(acc)
    ELSE IF ~IsDigit(Head(s)) THEN None
    ELSE LET v == acc * 10 + DigitVal(Head(s))
         IN  IF v > U16Max THEN None ELSE ParseDigits(Tail(s), v)

\* str::parse::<u16>(): empty is Err, a lone sign is Err, one leading '+'
\* is accepted, '-' is an invalid digit for an unsigned type.
ParseU16(s) ==
    IF s = << >> THEN None
    ELSE IF Head(s) = "+"
         THEN IF Len(s) = 1 THEN None ELSE ParseDigits(Tail(s), 0)
         ELSE ParseDigits(s, 0)

\* Mutant: the marker test is left out.
DetectPort_NoMarkerTest(line) ==
    LET w == LastWord(line)
    IN  IF IsSome(w) THEN ParseU16(TrimMatchesDot(Unwrap(w))) ELSE None

\* Body of the read loop for one line (main.rs 194-204): the port of the
\* event to emit, or None when no event is emitted.
DetectPort(line) ==
    IF Contains(line, Marker)
    THEN LET w == LastWord(line)
         IN  IF IsSome(w) THEN ParseU16(TrimMatchesDot(Unwrap(w))) ELSE None
    ELSE None

-----------------------------------------------------------------------------
(* Lines the backend may print (ids 1..NSamples); id 0 is the probe line. *)

SampleLines ==
    << Marker \o <<" ","8","4","2","1",".",".",".">>,
       Marker \o <<" ","5","4","3","2","1",".">>,
       Marker \o <<" ","a","b","c">>,
       Marker \o <<" ","6","5","5","3","6">>,
       <<"o","n"," ","p","o","r","t"," ","8","4","2","1">> >>

SampleIds == 1..Len(SampleLines)

LineText(id) == IF id = 0 THEN probe ELSE SampleLines[id]

\* Process identifiers the OS may hand out.
Pids == {4001}

Alive == appState \in {"running", "exiting"}

-----------------------------------------------------------------------------
(* The background task, main.rs 120-211 *)

\* Mutant: the reader is started without publishing the pid.
AfterSpawnPc_SkipPublish == "read"

\* What follows a successful spawn: the publish of main.rs 180-183 comes
\* before the reader of 187-191.
AfterSpawnPc == "publish"

\* Command::spawn().expect("Failed to spawn backend"), main.rs 172-178.
\* On Err the task panics: the runtime catches the unwinding panic and only
\* the task ends, or the build aborts the process on panic.
TaskSpawn ==
    /\ taskPc = "spawn"
    /\ Alive
    /\ \/ \E pid \in Pids :
            /\ childState' = "running"
            /\ childPid' = Some(pid)
            /\ stdoutOpen' = TRUE
            /\ taskPc' = AfterSpawnPc
            /\ UNCHANGED appState
       \/ \E abortOnPanic \in BOOLEAN :
            /\ taskPc' = "panicked"
            /\ appState' = IF abortOnPanic THEN "aborted" ELSE appState
            /\ UNCHANGED <<childState, childPid, stdoutOpen>>
    /\ UNCHANGED <<printed, linesRead, loopEnd, events, sidecarPid, lock, guardPc,
                   guardLocal, published, destroyed, kills, exits, envSagePort, setupPort,
                   exitStatus, probe>>

\* Mutant: the pid is not stored into the managed state.
TaskPublish_NoStore ==
    /\ taskPc = "publish"
    /\ Alive
    /\ lock = "free"
    /\ published' = TRUE
    /\ taskPc' = "read"
    /\ UNCHANGED <<childState, childPid, stdoutOpen, printed, linesRead, loopEnd,
                   events, sidecarPid, lock, guardPc, guardLocal, destroyed, kills,
                   exits, appState, envSagePort, setupPort, exitStatus, probe>>

\* if let Some(id) = child.id() { *state.0.lock().unwrap() = Some(id); }
\* main.rs 180-183, then child.stdout.take() and the reader, 187-188.
\* lock() blocks while the handler holds the mutex.
TaskPublish ==
    /\ taskPc = "publish"
    /\ Alive
    /\ lock = "free"
    /\ sidecarPid' = childPid
    /\ published' = TRUE
    /\ taskPc' = "read"
    /\ UNCHANGED <<childState, childPid, stdoutOpen, printed, linesRead, loopEnd,
                   events, lock, guardPc, guardLocal, destroyed, kills, exits,
                   appState, envSagePort, setupPort,
                   exitStatus, probe>>

\* Mutant: only the first readiness line raises an event.
EmitFor_Once(line, n) ==
    LET p == DetectPort(line)
    IN  IF IsSome(p) /\ events = << >>
        THEN Append(events, [port |-> Unwrap(p), at |-> n])
        ELSE events

\* The events after processing line number n with text `line`, main.rs 194-205.
\* emit_all(..).unwrap() is taken to return Ok: delivery belongs to the
\* windowing library, outside this file.
EmitFor(line, n) ==
    LET p == DetectPort(line)
    IN  IF IsSome(p) THEN Append(events, [port |-> Unwrap(p), at |-> n])
        ELSE events

\* Mutant: a marker line whose port does not parse ends the loop.
AfterLinePc_BreakOnBadPort(line) ==
    IF Contains(line, Marker) /\ ~IsSome(DetectPort(line)) THEN "wait" ELSE "read"

\* Mutant: the loop is left at the first readiness event.
AfterLinePc_BreakOnReady(line) ==
    IF IsSome(DetectPort(line)) THEN "wait" ELSE "read"

\* The loop's position after one line has been processed: the body holds no
\* break or return, so while let continues with the next next_line(),
\* main.rs 191/206.
AfterLinePc(line) == "read"

\* reader.next_line().await returned Ok(Some(line)), main.rs 191-206.
TaskReadLine ==
    /\ taskPc = "read"
    /\ Alive
    /\ Len(linesRead) < Len(printed)
    /\ LET n  == Len(linesRead) + 1
           id == printed[n]
       IN  /\ linesRead' = Append(linesRead, id)
           /\ events' = EmitFor(LineText(id), n)
           /\ taskPc' = AfterLinePc(LineText(id))
           /\ loopEnd' = IF AfterLinePc(LineText(id)) = "read" THEN loopEnd ELSE "break"
    /\ UNCHANGED <<childState, childPid, stdoutOpen, printed, sidecarPid, lock,
                   guardPc, guardLocal, published, destroyed, kills, exits, appState,
                   envSagePort, setupPort,
                   exitStatus, probe>>

\* next_line() returned Ok(None): the pipe is drained and its write end closed.
TaskReadEof ==
    /\ taskPc = "read"
    /\ Alive
    /\ Len(linesRead) = Len(printed)
    /\ ~stdoutOpen
    /\ loopEnd' = "eof"
    /\ taskPc' = "wait"
    /\ UNCHANGED <<childState, childPid, stdoutOpen, printed, linesRead, events,
                   sidecarPid, lock, guardPc, guardLocal, published, destroyed, kills,
                   exits, appState, envSagePort, setupPort,
                   exitStatus, probe>>

\* Mutant: the read result is unwrapped, so a read error panics the task.
TaskReadErr_Panics ==
    /\ taskPc = "read"
    /\ Alive
    /\ loopEnd' = "error"
    /\ taskPc' = "panicked"
    /\ UNCHANGED <<childState, childPid, stdoutOpen, printed, linesRead, events,
                   sidecarPid, lock, guardPc, guardLocal, published, destroyed, kills,
                   exits, appState, envSagePort, setupPort, exitStatus, probe>>

\* next_line() returned Err (an I/O error, or bytes that are not UTF-8):
\* while let Ok(Some(..)) ends the loop.
TaskReadErr ==
    /\ taskPc = "read"
    /\ Alive
    /\ loopEnd' = "error"
    /\ taskPc' = "wait"
    /\ UNCHANGED <<childState, childPid, stdoutOpen, printed, linesRead, events,
                   sidecarPid, lock, guardPc, guardLocal, published, destroyed, kills,
                   exits, appState, envSagePort, setupPort,
                   exitStatus, probe>>

\* What child.wait() may return: Ok(status) with any exit status, or Err.
\* Either way it returns once the child is gone.
WaitResults == {"Ok(0)", "Ok(1)", "Err"}

\* Mutant: the child is started again once it has exited.
TaskWait_Restart ==
    /\ taskPc = "wait"
    /\ Alive
    /\ childState = "exited"
    /\ childState' = "reaped"
    /\ \E res \in WaitResults : exitStatus' = Some(res)
    /\ taskPc' = "spawn"
    /\ UNCHANGED <<childPid, stdoutOpen, printed, linesRead, loopEnd, events,
                   sidecarPid, lock, guardPc, guardLocal, published, destroyed, kills,
                   exits, appState, envSagePort, setupPort, probe>>

\* Mutant: a failed backend takes the application down with it.
TaskWait_FatalOnFailure ==
    /\ taskPc = "wait"
    /\ Alive
    /\ childState = "exited"
    /\ childState' = "reaped"
    /\ \E res \in WaitResults :
          /\ exitStatus' = Some(res)
          /\ appState' = IF res = "Ok(0)" THEN appState ELSE "exiting"
    /\ taskPc' = "done"
    /\ UNCHANGED <<childPid, stdoutOpen, printed, linesRead, loopEnd, events,
                   sidecarPid, lock, guardPc, guardLocal, published, destroyed, kills,
                   exits, envSagePort, setupPort, probe>>

\* let status = child.wait().await; println!(..), main.rs 208-210: completes
\* once the child has exited and reaps it; the result is printed and dropped,
\* and the task ends. SidecarPid is not touched.
TaskWait ==
    /\ taskPc = "wait"
    /\ Alive
    /\ childState = "exited"
    /\ childState' = "reaped"
    /\ \E res \in WaitResults : exitStatus' = Some(res)
    /\ taskPc' = "done"
    /\ UNCHANGED <<childPid, stdoutOpen, printed, linesRead, loopEnd, events,
                   sidecarPid, lock, guardPc, guardLocal, published, destroyed, kills,
                   exits, appState, envSagePort, setupPort, probe>>

-----------------------------------------------------------------------------
(* The backend child and the OS *)

ChildPrint ==
    /\ childState = "running"
    /\ stdoutOpen
    /\ Alive
    /\ Len(printed) < MaxLines
    /\ \E id \in SampleIds : printed' = Append(printed, id)
    /\ UNCHANGED <<taskPc, childState, childPid, stdoutOpen, linesRead, loopEnd,
                   events, sidecarPid, lock, guardPc, guardLocal, published, destroyed,
                   kills, exits, appState, envSagePort, setupPort,
                   exitStatus, probe>>

ChildCloseStdout ==
    /\ childState = "running"
    /\ stdoutOpen
    /\ Alive
    /\ stdoutOpen' = FALSE
    /\ UNCHANGED <<taskPc, childState, childPid, printed, linesRead, loopEnd,
                   events, sidecarPid, lock, guardPc, guardLocal, published, destroyed,
                   kills, exits, appState, envSagePort, setupPort,
                   exitStatus, probe>>

\* The child terminates, on its own or because of a signal it was sent.
ChildExit ==
    /\ childState = "running"
    /\ Alive
    /\ childState' = "exited"
    /\ stdoutOpen' = FALSE
    /\ UNCHANGED <<taskPc, childPid, printed, linesRead, loopEnd, events,
                   sidecarPid, lock, guardPc, guardLocal, published, destroyed, kills,
                   exits, appState, envSagePort, setupPort,
                   exitStatus, probe>>

-----------------------------------------------------------------------------
(* The WindowEvent::Destroyed handler, main.rs 47-71 *)

\* Mutant: the kill branch is taken whatever the stored value.
PidFound_Always == TRUE

\* if let Some(pid) = *pid_guard, main.rs 54.
PidFound == IsSome(sidecarPid)

\* The handler is entered and state.0.lock().unwrap() returns, main.rs 52-53.
WindowDestroyed ==
    /\ Alive
    /\ guardPc = "idle"
    /\ destroyed < MaxDestroyed
    /\ lock = "free"
    /\ destroyed' = destroyed + 1
    /\ lock' = "guard"
    /\ guardLocal' = [found |-> IsSome(sidecarPid), pub |-> published,
                      kills0 |-> Len(kills)]
    /\ guardPc' = "locked"
    /\ UNCHANGED <<taskPc, childState, childPid, stdoutOpen, printed, linesRead,
                   loopEnd, events, sidecarPid, published, kills, exits, appState,
                   envSagePort, setupPort,
                   exitStatus, probe>>

\* Mutant: the pid is cleared without a termination request.
KillRequest_Dropped(target, ok) == kills

\* Command::new("kill").arg(pid.to_string()).output().ok() (taskkill /F /PID
\* on Windows), main.rs 55-64: one termination request for `target`; its
\* result (Err, or a non-zero status) is discarded by .ok().
KillRequest(target, ok) == Append(kills, [pid |-> target, ok |-> ok])

\* The if-let body up to the kill, main.rs 54-64: the request is issued with
\* the mutex held.
GuardKill ==
    /\ guardPc = "locked"
    /\ Alive
    /\ PidFound
    /\ \E ok \in BOOLEAN : kills' = KillRequest(sidecarPid, ok)
    /\ guardPc' = "killed"
    /\ UNCHANGED <<taskPc, childState, childPid, stdoutOpen, printed, linesRead,
                   loopEnd, events, sidecarPid, lock, guardLocal, published, destroyed,
                   exits, appState, envSagePort, setupPort,
                   exitStatus, probe>>

\* Mutant: the stored pid is left in place after the kill.
ClearedPid_Kept == sidecarPid

\* The value left in SidecarPid after the kill: *pid_guard = None, main.rs 65.
ClearedPid == None

\* Mutant: the pid is cleared only when the termination request succeeded.
GuardClear_OnlyIfKilled ==
    /\ guardPc = "killed"
    /\ Alive
    /\ sidecarPid' = IF kills[Len(kills)].ok THEN None ELSE sidecarPid
    /\ lock' = "free"
    /\ guardPc' = "unlocked"
    /\ UNCHANGED <<taskPc, childState, childPid, stdoutOpen, printed, linesRead,
                   loopEnd, events, guardLocal, published, destroyed, kills, exits,
                   appState, envSagePort, setupPort,
                   exitStatus, probe>>

\* *pid_guard = None; and the guard is dropped, main.rs 65-67.
GuardClear ==
    /\ guardPc = "killed"
    /\ Alive
    /\ sidecarPid' = ClearedPid
    /\ lock' = "free"
    /\ guardPc' = "unlocked"
    /\ UNCHANGED <<taskPc, childState, childPid, stdoutOpen, printed, linesRead,
                   loopEnd, events, guardLocal, published, destroyed, kills, exits,
                   appState, envSagePort, setupPort,
                   exitStatus, probe>>

\* The stored pid is None: the if-let body is skipped and the guard dropped.
GuardSkip ==
    /\ guardPc = "locked"
    /\ Alive
    /\ ~PidFound
    /\ lock' = "free"
    /\ guardPc' = "unlocked"
    /\ UNCHANGED <<taskPc, childState, childPid, stdoutOpen, printed, linesRead,
                   loopEnd, events, sidecarPid, guardLocal, published, destroyed, kills,
                   exits, appState, envSagePort, setupPort,
                   exitStatus, probe>>

\* The handler is inside the if-let body, about to run or running the
\* blocking kill command (GuardKill is that call, from start to return).
KillInProgress == guardPc = "locked" /\ PidFound

\* ghost: a termination request has been issued for the child's pid.
KillSent == IsSome(childPid) /\ \E i \in 1..Len(kills) : kills[i].pid = childPid

\* exit(0), main.rs 68.
ExitCode == 0

\* Mutant: the handler joins the background task before it exits.
GuardExit_WaitsForTask ==
    /\ guardPc = "unlocked"
    /\ Alive
    /\ taskPc = "done"
    /\ exits' = Append(exits, [code |-> ExitCode,
                               found |-> guardLocal.found,
                               pub |-> guardLocal.pub,
                               issued |-> Len(kills) - guardLocal.kills0,
                               running |-> (childState = "running"),
                               killed |-> KillSent,
                               pid |-> sidecarPid])
    /\ appState' = "exiting"
    /\ guardPc' = "idle"
    /\ UNCHANGED <<taskPc, childState, childPid, stdoutOpen, printed, linesRead,
                   loopEnd, events, sidecarPid, lock, guardLocal, published, destroyed,
                   kills, envSagePort, setupPort,
                   exitStatus, probe>>

\* event.window().app_handle().exit(0), main.rs 68. The call is recorded as
\* a request; the process ends in a later step (ProcessExit), which may be
\* the very next one, so both an immediate and a deferred exit are covered.
GuardExit ==
    /\ guardPc = "unlocked"
    /\ Alive
    /\ exits' = Append(exits, [code |-> ExitCode,
                               found |-> guardLocal.found,
                               pub |-> guardLocal.pub,
                               issued |-> Len(kills) - guardLocal.kills0,
                               running |-> (childState = "running"),
                               killed |-> KillSent,
                               pid |-> sidecarPid])
    /\ appState' = "exiting"
    /\ guardPc' = "idle"
    /\ UNCHANGED <<taskPc, childState, childPid, stdoutOpen, printed, linesRead,
                   loopEnd, events, sidecarPid, lock, guardLocal, published, destroyed,
                   kills, envSagePort, setupPort,
                   exitStatus, probe>>

\* The process ends after exit was requested; nothing runs afterwards.
ProcessExit ==
    /\ appState = "exiting"
    /\ appState' = "exited"
    /\ UNCHANGED <<taskPc, childState, childPid, stdoutOpen, printed, linesRead,
                   loopEnd, events, sidecarPid, lock, guardPc, guardLocal, published,
                   destroyed, kills, exits, envSagePort, setupPort,
                   exitStatus, probe>>

-----------------------------------------------------------------------------
(* Specifications *)

\* Ports TcpListener::bind("127.0.0.1:0") may have been given, main.rs 114-116.
SetupPorts == {50123}

\* port.to_string(), main.rs 117: decimal digits, no sign, no leading zeros.
RECURSIVE U16ToString(_)
U16ToString(n) ==
    IF n < 10 THEN <<Digits[n + 1]>>
    ELSE Append(U16ToString(n \div 10), Digits[(n % 10) + 1])

\* Mutant: the query reports the port of the latest readiness event.
get_server_port_FromEvents ==
    IF events # << >> THEN Some(events[Len(events)].port)
    ELSE IF IsSome(envSagePort) THEN ParseU16(Unwrap(envSagePort)) ELSE None

\* std::env::var("SAGE_PORT").ok().and_then(|p| p.parse().ok()), main.rs 23-26.
get_server_port ==
    IF IsSome(envSagePort) THEN ParseU16(Unwrap(envSagePort)) ELSE None

\* State after Builder::manage(SidecarPid(Mutex::new(None))) and setup.
Init ==
    /\ taskPc = "spawn"
    /\ childState = "none"
    /\ childPid = None
    /\ stdoutOpen = FALSE
    /\ printed = << >>
    /\ linesRead = << >>
    /\ loopEnd = "none"
    /\ events = << >>
    /\ sidecarPid = None
    /\ lock = "free"
    /\ guardPc = "idle"
    /\ guardLocal = [found |-> FALSE, pub |-> FALSE, kills0 |-> 0]
    /\ published = FALSE
    /\ destroyed = 0
    /\ kills = << >>
    /\ exits = << >>
    /\ appState = "running"
    /\ setupPort \in SetupPorts
    /\ envSagePort = Some(U16ToString(setupPort))
    /\ exitStatus = None
    /\ probe = << >>

Next ==
    \/ TaskSpawn
    \/ TaskPublish
    \/ TaskReadLine
    \/ TaskReadEof
    \/ TaskReadErr
    \/ TaskWait
    \/ ChildPrint
    \/ ChildCloseStdout
    \/ ChildExit
    \/ WindowDestroyed
    \/ GuardKill
    \/ GuardClear
    \/ GuardSkip
    \/ GuardExit
    \/ ProcessExit

Spec == Init /\ [][Next]_vars

\* The Destroyed handler is straight-line synchronous code on the event loop
\* thread (main.rs 48-69): once entered, each of its steps is taken. Nothing
\* is assumed of the background task, the child or the process end.
GuardFairness ==
    /\ WF_vars(GuardKill)
    /\ WF_vars(GuardClear)
    /\ WF_vars(GuardSkip)
    /\ WF_vars(GuardExit)

SpecLive == Init /\ [][Next]_vars /\ GuardFairness

-----------------------------------------------------------------------------
(* Detector specification: one arbitrary line is read and processed. *)

TokAlphabet == {"3", "5", "6", ".", "+", "a"}

Tokens == UNION {[1..n -> TokAlphabet] : n \in 0..MaxTok}

NearMarker == <<"s">> \o Tail(Marker)

ProbeSeps == {<<" ">>, << >>}

ProbeTails == {<< >>, <<"\t">>}

\* Other text around the token: the marker preceded by text, and a line that
\* misses the marker by one letter.
OtherHeads == {<<"x", " ">> \o Marker, NearMarker}

ProbeLines ==
    {Marker \o sep \o tok \o tl :
        sep \in ProbeSeps, tok \in Tokens, tl \in ProbeTails}
    \cup {h \o <<" ">> \o tok : h \in OtherHeads, tok \in {t \in Tokens : Len(t) <= 2}}

\* The task is in its read loop and the child has written the probe line.
InitDetect ==
    /\ taskPc = "read"
    /\ childState = "running"
    /\ childPid \in {Some(pid) : pid \in Pids}
    /\ stdoutOpen = TRUE
    /\ printed = <<0>>
    /\ linesRead = << >>
    /\ loopEnd = "none"
    /\ events = << >>
    /\ sidecarPid = childPid
    /\ lock = "free"
    /\ guardPc = "idle"
    /\ guardLocal = [found |-> FALSE, pub |-> FALSE, kills0 |-> 0]
    /\ published = TRUE
    /\ destroyed = 0
    /\ kills = << >>
    /\ exits = << >>
    /\ appState = "running"
    /\ setupPort \in SetupPorts
    /\ envSagePort = Some(U16ToString(setupPort))
    /\ exitStatus = None
    /\ probe \in ProbeLines

NextDetect == TaskReadLine

SpecDetect == InitDetect /\ [][NextDetect]_vars

-----------------------------------------------------------------------------
(* Reference reading of a line, written from the description of the        *)
(* detector and independent of the operators above.                        *)

RefHasMarker(line) ==
    \E off \in 0..(Len(line) - Len(Marker)) :
        \A k \in 1..Len(Marker) : line[off + k] = Marker[k]

RECURSIVE RefDropTrailingWs(_)
RefDropTrailingWs(s) ==
    IF s # << >> /\ s[Len(s)] \in Whitespace
    THEN RefDropTrailingWs(SubSeq(s, 1, Len(s) - 1))
    ELSE s

RECURSIVE RefTrailingWord(_)
RefTrailingWord(s) ==
    IF s = << >> \/ s[Len(s)] \in Whitespace THEN << >>
    ELSE Append(RefTrailingWord(SubSeq(s, 1, Len(s) - 1)), s[Len(s)])

\* The last whitespace-delimited token (empty when there is none).
RefLastToken(line) == RefTrailingWord(RefDropTrailingWs(line))

RECURSIVE RefStripTrailingDots(_)
RefStripTrailingDots(w) ==
    IF w # << >> /\ w[Len(w)] = "."
    THEN RefStripTrailingDots(SubSeq(w, 1, Len(w) - 1))
    ELSE w

RECURSIVE RefStripLeadingDots(_)
RefStripLeadingDots(w) ==
    IF w # << >> /\ Head(w) = "." THEN RefStripLeadingDots(Tail(w)) ELSE w

\* Value of a digit string, most significant digit first.
RECURSIVE RefDecimal(_)
RefDecimal(ds) ==
    IF ds = << >> THEN 0
    ELSE RefDecimal(SubSeq(ds, 1, Len(ds) - 1)) * 10 + DigitVal(ds[Len(ds)])

\* An unsigned 16-bit integer in decimal: digits, optionally after one '+',
\* denoting a value of at most 65535.
RefU16(s) ==
    LET ds == IF s # << >> /\ Head(s) = "+" THEN Tail(s) ELSE s
    IN  IF ds # << >> /\ (\A i \in 1..Len(ds) : IsDigit(ds[i])) /\ RefDecimal(ds) <= U16Max
        THEN Some(RefDecimal(ds))
        ELSE None

\* The port as the claims state it: trailing periods only are stripped.
ClaimedPort(line) ==
    IF RefHasMarker(line) THEN RefU16(RefStripTrailingDots(RefLastToken(line)))
    ELSE None

\* The port with periods stripped at both ends of the token.
AmendedPort(line) ==
    IF RefHasMarker(line)
    THEN RefU16(RefStripLeadingDots(RefStripTrailingDots(RefLastToken(line))))
    ELSE None

\* What the reference reading says of a line.
Facts(line) ==
    [marker  |-> RefHasMarker(line),
     claimed |-> ClaimedPort(line),
     amended |-> AmendedPort(line),
     tailing |-> RefU16(RefStripTrailingDots(RefLastToken(line)))]

SampleFacts == [id \in SampleIds |-> Facts(SampleLines[id])]

\* The facts of the i-th line read.
ReadFacts(i) == IF linesRead[i] = 0 THEN Facts(probe) ELSE SampleFacts[linesRead[i]]

EventAt(i) == {k \in 1..Len(events) : events[k].at = i}

\* A marker line whose last token is no port, however periods are stripped.
BadMarkerLine(f) == f.marker /\ ~IsSome(f.amended)

\* A marker line ending in a valid port token.
GoodMarkerLine(f) == f.marker /\ IsSome(f.claimed)

-----------------------------------------------------------------------------
(* Claims *)

C2_PublishBeforeRead ==
    /\ (linesRead # << >> \/ events # << >>) => published
    /\ taskPc \in {"read", "wait", "done"} => published
    /\ published => IsSome(childPid)

C2_Witness == published /\ events # << >> /\ linesRead # << >>

\* C3: once published, SidecarPid holds the child's pid until the handler
\* runs; after the handler has killed it holds None; further runs issue no
\* request and leave it None, so at most one request is ever issued.
C3_PidHeldThenClearedOnce ==
    /\ (published /\ kills = << >>) => (IsSome(sidecarPid) /\ sidecarPid = childPid)
    /\ (kills # << >> /\ guardPc # "killed") => sidecarPid = None
    /\ Len(kills) <= 1
    /\ \A i \in 1..Len(exits) :
          (exits[i].pub /\ ~exits[i].found) =>
              (exits[i].issued = 0 /\ exits[i].pid = None)

C3_Witness ==
    /\ Len(exits) >= 2
    /\ exits[1].found /\ exits[1].issued = 1 /\ exits[1].pid = None
    /\ ~exits[2].found /\ exits[2].issued = 0 /\ exits[2].pid = None

\* C4: a handler run that finds SidecarPid absent issues no termination
\* request and requests exit with code 0.
C4_AbsentPidNoKillExitZero ==
    /\ \A i \in 1..Len(exits) :
          ~exits[i].found => (exits[i].issued = 0 /\ exits[i].code = 0)
    /\ (guardPc \in {"locked", "unlocked"} /\ ~guardLocal.found) =>
          Len(kills) = guardLocal.kills0

C4_Witness ==
    \E i \in 1..Len(exits) :
        ~exits[i].pub /\ ~exits[i].found /\ exits[i].issued = 0 /\ exits[i].code = 0

\* C5: every handler run that returns has requested exit with code 0, with
\* or without a stored pid; after a termination request, failed or not,
\* SidecarPid is None when exit is requested.
C5_AlwaysExitZero ==
    /\ guardPc = "idle" => Len(exits) = destroyed
    /\ \A i \in 1..Len(exits) : exits[i].code = 0
    /\ \A i \in 1..Len(exits) : exits[i].issued > 0 => exits[i].pid = None

C5_Witness ==
    /\ Len(exits) = 1 /\ Len(kills) = 1
    /\ ~kills[1].ok
    /\ exits[1].issued = 1 /\ exits[1].code = 0 /\ exits[1].pid = None

\* C6: when every line read so far is a marker line ending in a valid port,
\* there is exactly one event per line, in the order of the lines, and at
\* end of stream every printed line has been read.
C6_OneEventPerValidLine ==
    /\ (\A i \in 1..Len(linesRead) : GoodMarkerLine(ReadFacts(i))) =>
          /\ Len(events) = Len(linesRead)
          /\ \A i \in 1..Len(events) :
                /\ events[i].at = i
                /\ events[i].port = Unwrap(ReadFacts(i).claimed)
    /\ loopEnd = "eof" => linesRead = printed

C6_Witness ==
    /\ loopEnd = "eof"
    /\ Len(linesRead) >= 2
    /\ \A i \in 1..Len(linesRead) : GoodMarkerLine(ReadFacts(i))
    /\ Len(events) = Len(linesRead)

\* C7: an event is emitted for a line only if the line contains the marker
\* and its port token parses; a line without the marker raises no event.
C7_EventOnlyForMarkerLine ==
    /\ \A k \in 1..Len(events) :
          /\ events[k].at \in 1..Len(linesRead)
          /\ ReadFacts(events[k].at).marker
          /\ ReadFacts(events[k].at).amended = Some(events[k].port)
    /\ \A k, m \in 1..Len(events) : k < m => events[k].at < events[m].at
    /\ \A i \in 1..Len(linesRead) : ~ReadFacts(i).marker => EventAt(i) = {}

C7_Witness ==
    \E i \in 1..Len(linesRead) :
        /\ ~ReadFacts(i).marker
        /\ IsSome(ReadFacts(i).tailing)
        /\ EventAt(i) = {}
        /\ events # << >>

\* C8: a marker line whose last token is not a port raises no event and does
\* not end the read loop: the loop ends only at end of stream or on a read
\* error, at end of stream every printed line has been read, and a later
\* valid marker line has its event.
C8_BadPortLineIgnored ==
    /\ \A i \in 1..Len(linesRead) : BadMarkerLine(ReadFacts(i)) => EventAt(i) = {}
    /\ taskPc \in {"wait", "done"} => loopEnd \in {"eof", "error"}
    /\ loopEnd = "eof" => (linesRead = printed /\ ~stdoutOpen)
    /\ \A i, j \in 1..Len(linesRead) :
          (i < j /\ BadMarkerLine(ReadFacts(i)) /\ GoodMarkerLine(ReadFacts(j))) =>
              \E k \in EventAt(j) : Some(events[k].port) = ReadFacts(j).claimed

C8_Witness ==
    \E i, j \in 1..Len(linesRead) :
        /\ i < j
        /\ BadMarkerLine(ReadFacts(i))
        /\ EventAt(i) = {}
        /\ EventAt(j) # {}

\* C9 (as claimed): the event for a line is the one given by the last token
\* with trailing periods only stripped, parsed as u16: emitted exactly when
\* that parse succeeds, with that port.
C9_TrailingPeriodsOnly ==
    linesRead # << >> =>
        events = IF IsSome(ClaimedPort(probe))
                 THEN <<[port |-> Unwrap(ClaimedPort(probe)), at |-> 1]>>
                 ELSE << >>

\* C9 (amended): the same with periods stripped at both ends of the token.
C9_PeriodsBothEnds ==
    linesRead # << >> =>
        events = IF IsSome(AmendedPort(probe))
                 THEN <<[port |-> Unwrap(AmendedPort(probe)), at |-> 1]>>
                 ELSE << >>

C9_Witness ==
    /\ linesRead # << >>
    /\ events # << >>
    /\ Head(RefLastToken(probe)) = "."
    /\ RefLastToken(probe)[Len(RefLastToken(probe))] = "."

\* C10 (as claimed): a failed spawn is fatal: nothing is published, read or
\* emitted, and the application aborts instead of running on.
C10_SpawnFailureAborts ==
    taskPc = "panicked" =>
        /\ ~published /\ linesRead = << >> /\ events = << >>
        /\ appState = "aborted"

\* C11: a Destroyed handler that has been entered always reaches its
\* exit(0) request (unless the process has already ended), whatever the
\* child and the background task do or fail to do.
C11_GuardReachesExit ==
    (guardPc # "idle") ~> ((guardPc = "idle" /\ Len(exits) = destroyed) \/ ~Alive)

C11_Witness ==
    /\ exits # << >>
    /\ childState = "running" /\ stdoutOpen /\ printed = << >>
    /\ taskPc = "read"

\* C12: the port query returns the port setup wrote to SAGE_PORT, in every
\* state: no event, child exit or handler run changes it.
C12_QueryIsSetupPort == get_server_port = Some(setupPort)

C12_Witness ==
    /\ events # << >> /\ events[Len(events)].port # setupPort
    /\ childState = "reaped"
    /\ exits # << >>
    /\ get_server_port = Some(setupPort)

\* C13 (as claimed): while the termination request is in progress the
\* SidecarPid lock is not held.
C13_NoKillUnderLock == KillInProgress => lock # "guard"

\* C13 (amended): the termination request is made with the lock held, from
\* the read of the pid to its clearing; the task is then always past its
\* publish step, so the publish never waits on the kill.
C13_PublishNeverWaitsOnKill ==
    (KillInProgress \/ guardPc = "killed") =>
        (lock = "guard" /\ published /\ taskPc \notin {"spawn", "publish"})

C13_Witness == KillInProgress /\ lock = "guard" /\ taskPc = "read"

\* C14: a handler run either finds no pid and issues nothing, or finds the
\* pid and issues one request; a child that exists and has been sent no
\* request has its pid in SidecarPid, except while the task stands between
\* spawn and publish.
C14_ChildReachableUnlessUnpublished ==
    /\ (childState \in {"running", "exited"} /\ ~KillSent /\ taskPc # "publish") =>
          sidecarPid = childPid
    /\ \A i \in 1..Len(exits) : exits[i].issued = (IF exits[i].found THEN 1 ELSE 0)

C14_Witness ==
    /\ exits # << >> /\ ~exits[1].found /\ exits[1].issued = 0
    /\ childState = "running" /\ ~KillSent
    /\ taskPc = "read" /\ sidecarPid = childPid

\* C15: the read loop is not left on readiness: after an event the task is
\* still in the loop until end of stream or a read error; wait-for-exit is
\* reached only then, and at end of stream every printed line has been read.
C15_WaitOnlyAfterDrain ==
    /\ (events # << >> /\ loopEnd = "none") => taskPc = "read"
    /\ taskPc \in {"wait", "done"} <=> loopEnd \in {"eof", "error"}
    /\ loopEnd = "eof" => (linesRead = printed /\ ~stdoutOpen)
    /\ (childState = "reaped" \/ IsSome(exitStatus)) => loopEnd \in {"eof", "error"}

C15_Witness ==
    /\ events # << >>
    /\ Len(linesRead) > events[1].at
    /\ loopEnd = "eof"
    /\ taskPc = "done"

\* C16: a failed read ends the loop as end of stream does: from then on no
\* line is read and no event emitted, the task is at (or past) its
\* wait-for-exit step, and the failed read itself leaves the application
\* state alone.
C16_ReadErrorEndsLoop ==
    [][loopEnd' = "error" =>
          /\ taskPc' \in {"wait", "done"}
          /\ linesRead' = linesRead
          /\ events' = events
          /\ (loopEnd # "error" => (appState' = appState /\ taskPc' = "wait"))]_vars

C16_Witness ==
    /\ loopEnd = "error"
    /\ Len(linesRead) < Len(printed)
    /\ taskPc = "done" /\ childState = "reaped"
    /\ appState = "running"

\* C17: the child's exit is never fatal: whatever wait() returned, the task
\* ends and the application runs on; exit is requested by the Destroyed
\* handler only.
C17_ChildExitNotFatal ==
    /\ appState \in {"exiting", "exited"} => (exits # << >> /\ destroyed > 0)
    /\ (childState \in {"exited", "reaped"} /\ destroyed = 0) => appState = "running"
    /\ IsSome(exitStatus) => (taskPc = "done" /\ childState = "reaped")

C17_Witness ==
    /\ exitStatus \in {Some("Ok(1)"), Some("Err")}
    /\ taskPc = "done"
    /\ destroyed = 0
    /\ appState = "running"

\* C18: the task never returns to its spawn step, a child is created only
\* by that step and only when none was created before, and SidecarPid is
\* set to a present value only by the first publish.
C18_SingleSpawn ==
    [][/\ taskPc' = "spawn" => taskPc = "spawn"
       /\ childPid' # childPid => (childPid = None /\ childState = "none")
       /\ (childState' = "running" /\ childState # "running") =>
             (childState = "none" /\ taskPc = "spawn")
       /\ (IsSome(sidecarPid') /\ sidecarPid' # sidecarPid) =>
             (~published /\ sidecarPid = None)]_vars

C18_Witness ==
    /\ taskPc = "done" /\ childState = "reaped"
    /\ Len(kills) = 1
    /\ Len(exits) = MaxDestroyed
    /\ sidecarPid = None

\* C19 (as claimed): whenever SidecarPid holds a pid, the child with that
\* pid has not been reaped by wait-for-exit, so the handler never issues a
\* termination request for a stale pid.
C19_StoredPidIsLive == IsSome(sidecarPid) => childState # "reaped"

=============================================================================
